---- MODULE Spec2Model ----
(***************************************************************************)
(* The log collector of the Kaa C client (kaa_logging.c): the bucket id    *)
(* counter, record intake, the size-budgeted extraction loop that builds   *)
(* one log bucket, and the handling of the server's acknowledgment.        *)
(* The log storage, the upload strategy, the status object and the         *)
(* platform message utilities are collaborators that kaa_logging.c only    *)
(* calls; they are modelled at their interface.                            *)
(***************************************************************************)
EXTENDS Integers, Sequences, FiniteSets, TLC

VARIABLES
    log_bucket_id,        \* self->log_bucket_id (uint16_t)
    log_storage,          \* self->log_storage: NULL or a storage instance
    log_upload_strategy,  \* self->log_upload_strategy: NULL or a strategy instance
    log_properties,       \* self->log_properties
    records,              \* contents of the storage instance held: <<[size, bucket_id]>>, oldest first
    seed,                 \* the bucket id the status object has persisted
    seeded,               \* whether a serialize call has reached ++log_bucket_id
    released,             \* the storage instances ext_log_storage_release has been called on
    res                   \* what the last call did: inputs, return code, collaborator calls, outputs

vars == <<log_bucket_id, log_storage, log_upload_strategy, log_properties,
          records, seed, seeded, released, res>>

----------------------------------------------------------------------------
\* Bounds of the model.

\* Capacity of a storage instance, in records.
MaxRecords == 2
\* How far serialize calls may advance the bucket id beyond the persisted seed.
MaxBuilds == 1

\* Inputs.
RecordSizes == {0, 10, 20}
WriterStarts == {8}
WriterSpaces == {4, 8, 14, 26, 40, 1036}
BucketSizes == {14, 1024}
StorageVolumes == {16}
\* Handles of storage instances.
Storages == {1, 2}
Seeds == {0, 65535}
AckBytes == {<<0, 0>>, <<0, 1>>}
\* A bucket id whose high-order byte is not zero.
HighAckBytes == {<<1, 0>>}
ResultBytes == {0, 2}
ExtensionLengths == {3, 4}
\* The byte that follows the result code in the acknowledgment.
PaddingBytes == {0, 255}
Verdicts == {"NO_ACTION", "UPLOAD", "CLEANUP"}
\* Extraction attempt at which the storage reports a failure of its own (0: never).
FailAts == {0, 1, 2}

----------------------------------------------------------------------------
\* Constants and integer types.

NULL == 0
\* A pointer to a writer or a reader: NULL_P, or <<what it points to>>.
NULL_P == <<>>
Ref(x) == <<x>>
Deref(p) == p[1]
Untagged == -1
LOGGING_RESULT_SUCCESS == 0
KAA_EXTENSION_HEADER_SIZE == 8
KAA_ALIGNMENT == 4
KAA_MAX_PADDING_LENGTH == 3
UINT16_MODULUS == 65536
\* size_t arithmetic is modular. The platform's modulus is 2^32 or 2^64; the
\* model takes 2^30, which like them exceeds every size that occurs.
SIZE_MODULUS == 2^30

uint16(x) == x % UINT16_MODULUS
size_t(x) == x % SIZE_MODULUS

\* Network byte order: the bytes of a 16-bit and of a 32-bit value, and back.
KAA_HTONS(x) == <<(x \div 256) % 256, x % 256>>
KAA_NTOHS(b) == b[1] * 256 + b[2]
KAA_HTONL(x) == <<(x \div 16777216) % 256, (x \div 65536) % 256, (x \div 256) % 256, x % 256>>
KAA_NTOHL(b) == b[1] * 16777216 + b[2] * 65536 + b[3] * 256 + b[4]

kaa_aligned_size_get(size) ==
    IF size % KAA_ALIGNMENT = 0 THEN size
    ELSE size + (KAA_ALIGNMENT - (size % KAA_ALIGNMENT))

----------------------------------------------------------------------------
\* Platform message writer: [begin, current, end] as offsets into the buffer.

\* Writes the 8-byte extension header if it fits.
kaa_platform_message_write_extension_header(writer) ==
    IF writer.current + KAA_EXTENSION_HEADER_SIZE <= writer.end
    THEN [error |-> "KAA_ERR_NONE",
          writer |-> [writer EXCEPT !.current = @ + KAA_EXTENSION_HEADER_SIZE]]
    ELSE [error |-> "KAA_ERR_WRITE_FAILED", writer |-> writer]

\* Pads the cursor to the next 4-byte boundary of the message if the padding fits.
kaa_platform_message_write_alignment(writer) ==
    LET used == (writer.current - writer.begin) % KAA_ALIGNMENT
        padding == IF used = 0 THEN 0 ELSE KAA_ALIGNMENT - used
    IN  IF writer.current + padding <= writer.end
        THEN [writer EXCEPT !.current = @ + padding]
        ELSE writer

----------------------------------------------------------------------------
\* Log storage, at its interface.

RECURSIVE SumSizes(_)
SumSizes(recs) ==
    IF recs = <<>> THEN 0 ELSE Head(recs).size + SumSizes(Tail(recs))

ext_log_storage_get_total_size(recs) == SumSizes(recs)

\* The number of records that belong to no bucket.
ext_log_storage_get_records_count(recs) ==
    Len(SelectSeq(recs, LAMBDA r : r.bucket_id = Untagged))

IsTagged(r, id) == r.bucket_id = id

\* Index of the oldest record that belongs to no bucket, 0 if there is none.
NextEligible(recs) ==
    LET free == {i \in 1..Len(recs) : IsTagged(recs[i], Untagged)}
    IN  IF free = {} THEN 0 ELSE CHOOSE i \in free : \A j \in free : i <= j

ext_log_storage_write_next_record(recs, buffer_len, bucket_id, fails) ==
    LET i == NextEligible(recs)
    IN  IF fails
        THEN [error |-> "KAA_ERR_BADDATA", record_len |-> 0, records |-> recs]
        ELSE IF i = 0
        THEN [error |-> "KAA_ERR_NOT_FOUND", record_len |-> 0, records |-> recs]
        ELSE IF recs[i].size > buffer_len
        THEN [error |-> "KAA_ERR_INSUFFICIENT_BUFFER", record_len |-> 0, records |-> recs]
        ELSE [error |-> "KAA_ERR_NONE", record_len |-> recs[i].size,
              records |-> [recs EXCEPT ![i].bucket_id = bucket_id]]

ext_log_storage_remove_by_bucket_id(recs, id) ==
    SelectSeq(recs, LAMBDA r : ~IsTagged(r, id))

ext_log_storage_unmark_by_bucket_id(recs, id) ==
    [i \in 1..Len(recs) |->
        IF IsTagged(recs[i], id) THEN [recs[i] EXCEPT !.bucket_id = Untagged] ELSE recs[i]]

\* Drops the oldest records until the occupied size is within the volume.
RECURSIVE ext_log_storage_shrink_to_size(_, _)
ext_log_storage_shrink_to_size(recs, volume) ==
    IF SumSizes(recs) <= volume THEN recs
    ELSE ext_log_storage_shrink_to_size(Tail(recs), volume)

ext_log_storage_add_log_record(recs, size) ==
    Append(recs, [size |-> size, bucket_id |-> Untagged])

----------------------------------------------------------------------------
\* The record of a call.

NoWriter == [begin |-> 0, current |-> 0, end |-> 0]

NoRes ==
    [op |-> "kaa_log_collector_create", ret |-> "KAA_ERR_NONE", calls |-> <<>>,
     verdict |-> "NO_ACTION", shrink |-> "none",
     size |-> 0,
     writer0 |-> NoWriter, writer |-> NoWriter, remaining_size |-> 0,
     extension_size |-> <<>>, bucket_id |-> <<>>, records_count |-> <<>>,
     lens |-> <<>>, first |-> "none", last |-> "none",
     id |-> 0, result |-> 0, consumed |-> 0, matched |-> 0,
     expected_size |-> 0, extension_length |-> 0, reader |-> <<>>,
     handler |-> TRUE, failed |-> "none",
     storage |-> NULL, upload_strategy |-> NULL,
     properties |-> [max_log_storage_volume |-> 0, max_log_bucket_size |-> 0]]

Returned(op, ret, calls) == [NoRes EXCEPT !.op = op, !.ret = ret, !.calls = calls]

Calls(seq, name) == \E i \in 1..Len(seq) : seq[i] = name

----------------------------------------------------------------------------
\* kaa_log_collector_create

Init ==
    /\ log_bucket_id = 0
    /\ log_storage = NULL
    /\ log_upload_strategy = NULL
    /\ log_properties = [max_log_storage_volume |-> 0, max_log_bucket_size |-> 0]
    /\ records = <<>>
    /\ seed \in Seeds
    /\ seeded = FALSE
    /\ released = {}
    /\ res = NoRes

\* ext_log_storage_release: NULL is not an instance; anything else is released.
ext_log_storage_release(storage) == {storage} \ {NULL}

\* kaa_logging_init. A storage other than the one held is a newly created, empty
\* instance (its handle may be that of an instance released before); the one held
\* goes to ext_log_storage_release with its records.
kaa_logging_init(storage, upload_strategy, properties) ==
    LET op == "kaa_logging_init"
        given(ret, calls) == [Returned(op, ret, calls) EXCEPT !.storage = storage,
                                                              !.upload_strategy = upload_strategy,
                                                              !.properties = properties]
    IN
    IF storage = NULL \/ upload_strategy = NULL
    THEN /\ res' = given("KAA_ERR_BADPARAM", <<>>)
         /\ UNCHANGED <<log_bucket_id, log_storage, log_upload_strategy, log_properties,
                        records, seed, seeded, released>>
    ELSE /\ released' = (IF storage = log_storage THEN released ELSE released \ {storage})
                            \cup ext_log_storage_release(log_storage)
         /\ log_storage' = storage
         /\ log_properties' = properties
         /\ log_upload_strategy' = upload_strategy
         /\ records' = <<>>
         /\ res' = given("KAA_ERR_NONE", <<"ext_log_storage_release">>)
         /\ UNCHANGED <<log_bucket_id, seed, seeded>>

----------------------------------------------------------------------------
\* update_storage: the strategy's verdict and what it leads to.

\* update_storage with the UPLOAD case falling through into the shrink.
update_storage_fallthrough(recs, verdict, shrink_ok, handler) ==
    IF verdict \in {"CLEANUP", "UPLOAD"}
    THEN [records |-> IF shrink_ok
                      THEN ext_log_storage_shrink_to_size(recs, log_properties.max_log_storage_volume)
                      ELSE recs,
          shrink |-> IF verdict = "CLEANUP"
                     THEN (IF shrink_ok THEN "KAA_ERR_NONE" ELSE "KAA_ERR_BADPARAM")
                     ELSE "none",
          calls |-> <<"ext_log_upload_strategy_decide", "ext_log_storage_shrink_to_size">>]
    ELSE [records |-> recs, shrink |-> "none",
          calls |-> <<"ext_log_upload_strategy_decide">>]

\* update_storage shrinking to no volume at all instead of max_log_storage_volume.
update_storage_shrink_to_zero(recs, verdict, shrink_ok, handler) ==
    CASE verdict = "CLEANUP" ->
            [records |-> IF shrink_ok THEN ext_log_storage_shrink_to_size(recs, 0) ELSE recs,
             shrink |-> IF shrink_ok THEN "KAA_ERR_NONE" ELSE "KAA_ERR_BADPARAM",
             calls |-> <<"ext_log_upload_strategy_decide", "ext_log_storage_shrink_to_size">>]
      [] verdict = "UPLOAD" ->
            [records |-> recs, shrink |-> "none",
             calls |-> <<"ext_log_upload_strategy_decide", "kaa_channel_manager_get_sync_handler">>
                       \o (IF handler THEN <<"sync">> ELSE <<>>)]
      [] OTHER ->
            [records |-> recs, shrink |-> "none",
             calls |-> <<"ext_log_upload_strategy_decide">>]

\* update_storage with the CLEANUP case asking for a sync as well.
update_storage_sync_on_cleanup(recs, verdict, shrink_ok, handler) ==
    CASE verdict = "CLEANUP" ->
            [records |-> IF shrink_ok
                         THEN ext_log_storage_shrink_to_size(recs, log_properties.max_log_storage_volume)
                         ELSE recs,
             shrink |-> IF shrink_ok THEN "KAA_ERR_NONE" ELSE "KAA_ERR_BADPARAM",
             calls |-> <<"ext_log_upload_strategy_decide", "ext_log_storage_shrink_to_size",
                         "kaa_channel_manager_get_sync_handler">>
                       \o (IF handler THEN <<"sync">> ELSE <<>>)]
      [] verdict = "UPLOAD" ->
            [records |-> recs, shrink |-> "none",
             calls |-> <<"ext_log_upload_strategy_decide", "kaa_channel_manager_get_sync_handler">>
                       \o (IF handler THEN <<"sync">> ELSE <<>>)]
      [] OTHER ->
            [records |-> recs, shrink |-> "none",
             calls |-> <<"ext_log_upload_strategy_decide">>]

update_storage(recs, verdict, shrink_ok, handler) ==
    CASE verdict = "CLEANUP" ->
            [records |-> IF shrink_ok
                         THEN ext_log_storage_shrink_to_size(recs, log_properties.max_log_storage_volume)
                         ELSE recs,
             shrink |-> IF shrink_ok THEN "KAA_ERR_NONE" ELSE "KAA_ERR_BADPARAM",
             calls |-> <<"ext_log_upload_strategy_decide", "ext_log_storage_shrink_to_size">>]
      [] verdict = "UPLOAD" ->
            [records |-> recs, shrink |-> "none",
             calls |-> <<"ext_log_upload_strategy_decide", "kaa_channel_manager_get_sync_handler">>
                       \o (IF handler THEN <<"sync">> ELSE <<>>)]
      [] OTHER ->
            [records |-> recs, shrink |-> "none",
             calls |-> <<"ext_log_upload_strategy_decide">>]

----------------------------------------------------------------------------
\* kaa_logging_add_record

\* The size check left out.
record_is_empty_unchecked(size) == FALSE

\* if (!record.size) return KAA_ERR_BADDATA;
record_is_empty(size) == size = 0

\* The buffer released only when the avro writer could not be created.
release_buffer_writer_only(failed) ==
    IF failed = "avro_writer_memory"
    THEN <<"ext_log_storage_deallocate_log_record_buffer">> ELSE <<>>

\* The release of the record buffer after the step named by failed has failed:
\* none if no step failed or the allocation itself did.
release_buffer(failed) ==
    IF failed \in {"avro_writer_memory", "ext_log_storage_add_log_record"}
    THEN <<"ext_log_storage_deallocate_log_record_buffer">> ELSE <<>>

kaa_logging_add_record(entry, size, alloc_ok, writer_ok, add_ok, verdict, shrink_ok, handler) ==
    LET op == "kaa_logging_add_record"
        failed == IF ~alloc_ok THEN "ext_log_storage_allocate_log_record_buffer"
                  ELSE IF ~writer_ok THEN "avro_writer_memory"
                  ELSE IF ~add_ok THEN "ext_log_storage_add_log_record"
                  ELSE "none"
        done(ret, calls) == [Returned(op, ret, calls) EXCEPT !.size = size, !.failed = failed]
    IN
    IF entry = NULL
    THEN /\ res' = Returned(op, "KAA_ERR_BADPARAM", <<>>)
         /\ UNCHANGED <<log_bucket_id, log_storage, log_upload_strategy, log_properties,
                        records, seed, seeded, released>>
    ELSE IF log_storage = NULL
    THEN /\ res' = Returned(op, "KAA_ERR_NOT_INITIALIZED", <<>>)
         /\ UNCHANGED <<log_bucket_id, log_storage, log_upload_strategy, log_properties,
                        records, seed, seeded, released>>
    ELSE IF record_is_empty(size)
    THEN /\ res' = [Returned(op, "KAA_ERR_BADDATA", <<>>) EXCEPT !.size = size]
         /\ UNCHANGED <<log_bucket_id, log_storage, log_upload_strategy, log_properties,
                        records, seed, seeded, released>>
    ELSE IF ~alloc_ok
    THEN /\ res' = done("KAA_ERR_NOMEM", <<"ext_log_storage_allocate_log_record_buffer">>
                                          \o release_buffer(failed))
         /\ UNCHANGED <<log_bucket_id, log_storage, log_upload_strategy, log_properties,
                        records, seed, seeded, released>>
    ELSE IF ~writer_ok
    THEN /\ res' = done("KAA_ERR_NOMEM", <<"ext_log_storage_allocate_log_record_buffer">>
                                          \o release_buffer(failed))
         /\ UNCHANGED <<log_bucket_id, log_storage, log_upload_strategy, log_properties,
                        records, seed, seeded, released>>
    ELSE IF ~add_ok
    THEN /\ res' = done("KAA_ERR_NOMEM", <<"ext_log_storage_allocate_log_record_buffer",
                                          "ext_log_storage_add_log_record">>
                                          \o release_buffer(failed))
         /\ UNCHANGED <<log_bucket_id, log_storage, log_upload_strategy, log_properties,
                        records, seed, seeded, released>>
    ELSE LET upd == update_storage(ext_log_storage_add_log_record(records, size),
                                   verdict, shrink_ok, handler)
         IN  /\ records' = upd.records
             /\ res' = [done("KAA_ERR_NONE", <<"ext_log_storage_allocate_log_record_buffer",
                                               "ext_log_storage_add_log_record">>
                                               \o release_buffer(failed) \o upd.calls)
                           EXCEPT !.verdict = verdict, !.shrink = upd.shrink,
                                  !.handler = handler]
             /\ UNCHANGED <<log_bucket_id, log_storage, log_upload_strategy, log_properties,
                            seed, seeded, released>>

----------------------------------------------------------------------------
\* kaa_logging_request_get_size

\* *expected_size as lines 190-199 compute it.
request_size(records_count, total_size, max_log_bucket_size) ==
    LET actual_size == size_t(records_count * 4 + records_count * KAA_MAX_PADDING_LENGTH
                              + total_size)
    IN  size_t(KAA_EXTENSION_HEADER_SIZE + 4
               + (IF actual_size < max_log_bucket_size THEN actual_size
                  ELSE max_log_bucket_size))

kaa_logging_request_get_size(expected_size_p) ==
    LET op == "kaa_logging_request_get_size"
    IN
    IF expected_size_p = NULL
    THEN /\ res' = Returned(op, "KAA_ERR_BADPARAM", <<>>)
         /\ UNCHANGED <<log_bucket_id, log_storage, log_upload_strategy, log_properties,
                        records, seed, seeded, released>>
    ELSE IF log_storage = NULL
    THEN /\ res' = Returned(op, "KAA_ERR_NOT_INITIALIZED", <<>>)
         /\ UNCHANGED <<log_bucket_id, log_storage, log_upload_strategy, log_properties,
                        records, seed, seeded, released>>
    ELSE /\ res' = [Returned(op, "KAA_ERR_NONE", <<"ext_log_storage_get_records_count",
                                                   "ext_log_storage_get_total_size">>)
                       EXCEPT !.expected_size =
                           request_size(ext_log_storage_get_records_count(records),
                                        ext_log_storage_get_total_size(records),
                                        log_properties.max_log_bucket_size)]
         /\ UNCHANGED <<log_bucket_id, log_storage, log_upload_strategy, log_properties,
                        records, seed, seeded, released>>

----------------------------------------------------------------------------
\* kaa_logging_request_serialize

\* The bucket id used without the increment.
next_bucket_id_unchanged(id) == id

\* ++self->log_bucket_id
next_bucket_id(id) == uint16(id + 1)

\* The budget of the bucket: the smaller of the configured bucket size and the
\* space left in the buffer, compared as unsigned values.
remaining_size_init(max_log_bucket_size, writer) ==
    IF max_log_bucket_size < size_t(writer.end - writer.current)
    THEN max_log_bucket_size
    ELSE writer.end - writer.current

\* The extraction loop without the check for an empty bucket.
RECURSIVE extract_records_unchecked(_, _, _)
extract_records_unchecked(st, bucket_id, fail_at) ==
    LET r == ext_log_storage_write_next_record(st.records, size_t(st.remaining_size - 4),
                                               bucket_id, fail_at = Len(st.lens) + 1)
    IN  CASE r.error = "KAA_ERR_NONE" ->
                extract_records_unchecked(
                    [records |-> r.records,
                     writer |-> kaa_platform_message_write_alignment(
                                    [st.writer EXCEPT !.current = @ + 4 + r.record_len]),
                     remaining_size |-> st.remaining_size - (kaa_aligned_size_get(r.record_len) + 4),
                     records_count |-> uint16(st.records_count + 1),
                     lens |-> Append(st.lens, r.record_len)],
                    bucket_id, fail_at)
          [] r.error \in {"KAA_ERR_NOT_FOUND", "KAA_ERR_INSUFFICIENT_BUFFER"} ->
                [st EXCEPT !.records = r.records] @@
                [error |-> r.error, returned |-> FALSE]
          [] OTHER ->
                [st EXCEPT !.records = r.records] @@
                [error |-> r.error, returned |-> TRUE]

\* The extension size computed without taking the header off.
extension_total_size_with_header(tmp_current, current) == tmp_current - current

\* size_t total_size = tmp_writer.current - writer->current - KAA_EXTENSION_HEADER_SIZE;
extension_total_size(tmp_current, current) ==
    tmp_current - current - KAA_EXTENSION_HEADER_SIZE

\* The extraction loop. st: [records, writer, remaining_size, records_count, lens];
\* the result adds error, the status the loop ended with, and returned, whether
\* the function returned it from inside the loop.
RECURSIVE extract_records(_, _, _)
extract_records(st, bucket_id, fail_at) ==
    LET r == ext_log_storage_write_next_record(st.records, size_t(st.remaining_size - 4),
                                               bucket_id, fail_at = Len(st.lens) + 1)
    IN  CASE r.error = "KAA_ERR_NONE" ->
                extract_records(
                    [records |-> r.records,
                     writer |-> kaa_platform_message_write_alignment(
                                    [st.writer EXCEPT !.current = @ + 4 + r.record_len]),
                     remaining_size |-> st.remaining_size - (kaa_aligned_size_get(r.record_len) + 4),
                     records_count |-> uint16(st.records_count + 1),
                     lens |-> Append(st.lens, r.record_len)],
                    bucket_id, fail_at)
          [] r.error \in {"KAA_ERR_NOT_FOUND", "KAA_ERR_INSUFFICIENT_BUFFER"} ->
                [st EXCEPT !.records = r.records] @@
                [error |-> r.error, returned |-> (st.records_count = 0)]
          [] OTHER ->
                [st EXCEPT !.records = r.records] @@
                [error |-> r.error, returned |-> TRUE]

kaa_logging_request_serialize(writer_p, seed_ok, fail_at) ==
    LET op == "kaa_logging_request_serialize"
        writer == Deref(writer_p)
        failed(ret, calls) == [Returned(op, ret, calls) EXCEPT !.writer0 = writer, !.writer = writer]
    IN
    /\ log_bucket_id = 0 \/ uint16(log_bucket_id - seed) < MaxBuilds
    /\ IF writer_p = NULL_P
       THEN /\ res' = Returned(op, "KAA_ERR_BADPARAM", <<>>)
            /\ UNCHANGED <<log_bucket_id, log_storage, log_upload_strategy, log_properties,
                           records, seed, seeded, released>>
       ELSE IF log_storage = NULL
       THEN /\ res' = failed("KAA_ERR_NOT_INITIALIZED", <<>>)
            /\ UNCHANGED <<log_bucket_id, log_storage, log_upload_strategy, log_properties,
                           records, seed, seeded, released>>
       ELSE IF kaa_platform_message_write_extension_header(writer).error # "KAA_ERR_NONE"
       THEN /\ res' = failed("KAA_ERR_WRITE_FAILED", <<>>)
            /\ UNCHANGED <<log_bucket_id, log_storage, log_upload_strategy, log_properties,
                           records, seed, seeded, released>>
       ELSE IF log_bucket_id = 0 /\ ~seed_ok
       THEN /\ res' = failed("KAA_ERR_BAD_STATE", <<"kaa_status_get_log_bucket_id">>)
            /\ UNCHANGED <<log_bucket_id, log_storage, log_upload_strategy, log_properties,
                           records, seed, seeded, released>>
       ELSE LET status_calls == IF log_bucket_id = 0
                                THEN <<"kaa_status_get_log_bucket_id">> ELSE <<>>
                bucket_id == next_bucket_id(IF log_bucket_id = 0 THEN seed ELSE log_bucket_id)
                tmp_writer == [kaa_platform_message_write_extension_header(writer).writer
                                  EXCEPT !.current = @ + 4]
                remaining_size == remaining_size_init(log_properties.max_log_bucket_size, tmp_writer)
                first == ext_log_storage_write_next_record(records, size_t(remaining_size - 4),
                                                           bucket_id, fail_at = 1).error
                out == extract_records([records |-> records, writer |-> tmp_writer,
                                        remaining_size |-> remaining_size,
                                        records_count |-> 0, lens |-> <<>>],
                                       bucket_id, fail_at)
                total_size == extension_total_size(out.writer.current, writer.current)
                extraction == [i \in 1..(Len(out.lens) + (IF out.error = "KAA_ERR_NONE" THEN 0 ELSE 1))
                                  |-> "ext_log_storage_write_next_record"]
            IN  /\ log_bucket_id' = bucket_id
                /\ seeded' = TRUE
                /\ records' = out.records
                /\ res' = IF out.returned
                          THEN [failed(out.error, status_calls \o extraction)
                                   EXCEPT !.first = first, !.last = out.error,
                                          !.lens = out.lens,
                                          !.bucket_id = KAA_HTONS(bucket_id)]
                          ELSE [Returned(op, "KAA_ERR_NONE", status_calls \o extraction)
                                   EXCEPT !.writer0 = writer, !.writer = out.writer,
                                          !.remaining_size = out.remaining_size,
                                          !.extension_size = KAA_HTONL(total_size),
                                          !.bucket_id = KAA_HTONS(bucket_id),
                                          !.records_count = KAA_HTONS(out.records_count),
                                          !.lens = out.lens, !.first = first,
                                          !.last = out.error]
                /\ UNCHANGED <<log_storage, log_upload_strategy, log_properties, seed, released>>

----------------------------------------------------------------------------
\* kaa_logging_handle_server_sync. reader: the bytes at the reader's cursor.

\* An acknowledgment taken to be present from 3 bytes on.
has_acknowledgment_from_3(extension_length) == extension_length >= 3

\* if (extension_length >= sizeof(uint32_t))
has_acknowledgment(extension_length) == extension_length >= 4

\* uint16_t id = KAA_NTOHS(*((uint16_t *) reader->current));
acknowledgment_id(reader) == KAA_NTOHS(SubSeq(reader, 1, 2))

\* The result taken from the low-order byte of the 16-bit slot.
acknowledgment_result_low_byte(reader) == reader[4]

\* logging_sync_result_t result = *((const uint8_t *) reader->current);
\* read after the cursor has moved past the id.
acknowledgment_result(reader) == reader[3]

\* The two storage calls taken for each other.
resolve_bucket_swapped(recs, id, result) ==
    IF result = LOGGING_RESULT_SUCCESS
    THEN [records |-> ext_log_storage_unmark_by_bucket_id(recs, id),
          call |-> "ext_log_storage_unmark_by_bucket_id"]
    ELSE [records |-> ext_log_storage_remove_by_bucket_id(recs, id),
          call |-> "ext_log_storage_remove_by_bucket_id"]

\* The storage call the result code selects.
resolve_bucket(recs, id, result) ==
    IF result = LOGGING_RESULT_SUCCESS
    THEN [records |-> ext_log_storage_remove_by_bucket_id(recs, id),
          call |-> "ext_log_storage_remove_by_bucket_id"]
    ELSE [records |-> ext_log_storage_unmark_by_bucket_id(recs, id),
          call |-> "ext_log_storage_unmark_by_bucket_id"]

kaa_logging_handle_server_sync(reader_p, extension_length, verdict, shrink_ok, handler) ==
    LET op == "kaa_logging_handle_server_sync"
        reader == Deref(reader_p)
    IN
    IF reader_p = NULL_P
    THEN /\ res' = Returned(op, "KAA_ERR_BADPARAM", <<>>)
         /\ UNCHANGED <<log_bucket_id, log_storage, log_upload_strategy, log_properties,
                        records, seed, seeded, released>>
    ELSE IF has_acknowledgment(extension_length)
    THEN LET id == acknowledgment_id(reader)
             result == acknowledgment_result(reader)
             resolved == resolve_bucket(records, id, result)
             upd == update_storage(resolved.records, verdict, shrink_ok, handler)
         IN  /\ records' = IF log_storage = NULL THEN records ELSE upd.records
             /\ res' = [Returned(op, "KAA_ERR_NONE", <<resolved.call>> \o upd.calls)
                           EXCEPT !.id = id, !.result = result, !.consumed = 2 + 2,
                                  !.extension_length = extension_length, !.reader = reader,
                                  !.verdict = verdict, !.shrink = upd.shrink,
                                  !.handler = handler,
                                  !.matched = Len(SelectSeq(records, LAMBDA r : IsTagged(r, id)))]
             /\ UNCHANGED <<log_bucket_id, log_storage, log_upload_strategy, log_properties,
                            seed, seeded, released>>
    ELSE /\ res' = [Returned(op, "KAA_ERR_NONE", <<>>)
                       EXCEPT !.extension_length = extension_length, !.reader = reader]
         /\ UNCHANGED <<log_bucket_id, log_storage, log_upload_strategy, log_properties,
                        records, seed, seeded, released>>

----------------------------------------------------------------------------
\* The calls the application and the platform protocol make.

Writers ==
    {[begin |-> 0, current |-> c, end |-> c + s] : c \in WriterStarts, s \in WriterSpaces}

Readers(ids, padding) ==
    {id \o <<b2, b3>> : id \in ids, b2 \in ResultBytes, b3 \in padding}

Properties ==
    [max_log_storage_volume : StorageVolumes, max_log_bucket_size : BucketSizes]

\* What the collaborators of kaa_logging_add_record answer when one of them fails:
\* the buffer allocation, the avro writer or the registration.
AddFailures ==
    {<<FALSE, TRUE, TRUE>>, <<TRUE, FALSE, TRUE>>, <<TRUE, TRUE, FALSE>>}

\* What the strategy decides, whether the shrink it may ask for succeeds, and
\* whether a sync handler is registered.
StrategyOutcomes ==
    {<<"NO_ACTION", TRUE, TRUE>>, <<"UPLOAD", TRUE, TRUE>>, <<"UPLOAD", TRUE, FALSE>>,
     <<"CLEANUP", TRUE, TRUE>>, <<"CLEANUP", FALSE, TRUE>>}

\* The application initializes the collector once and then uses it; Reinit,
\* below, adds the initialization of a collector that already holds a storage.
Next ==
    \/ \E properties \in Properties :
          /\ log_storage = NULL
          /\ kaa_logging_init(1, 1, properties)
    \/ \E properties \in Properties :
          kaa_logging_init(NULL, 1, properties)
    \/ kaa_logging_add_record(NULL, 0, TRUE, TRUE, TRUE, "NO_ACTION", TRUE, TRUE)
    \/ \E a \in AddFailures :
          kaa_logging_add_record(1, 10, a[1], a[2], a[3], "NO_ACTION", TRUE, TRUE)
    \/ kaa_logging_add_record(1, 0, TRUE, TRUE, TRUE, "NO_ACTION", TRUE, TRUE)
    \/ \E size \in RecordSizes \ {0}, s \in StrategyOutcomes :
          /\ Len(records) < MaxRecords
          /\ kaa_logging_add_record(1, size, TRUE, TRUE, TRUE, s[1], s[2], s[3])
    \/ kaa_logging_request_get_size(NULL)
    \/ kaa_logging_request_get_size(1)
    \/ kaa_logging_request_serialize(NULL_P, TRUE, 0)
    \/ \E writer \in Writers :
          kaa_logging_request_serialize(Ref(writer), FALSE, 0)
    \/ \E writer \in Writers, fail_at \in FailAts :
          kaa_logging_request_serialize(Ref(writer), TRUE, fail_at)
    \* The caller sizes the buffer by the estimate it has just obtained.
    \/ \E start \in WriterStarts :
          /\ res.op = "kaa_logging_request_get_size" /\ res.ret = "KAA_ERR_NONE"
          /\ kaa_logging_request_serialize(
                 Ref([begin |-> 0, current |-> start, end |-> start + res.expected_size]),
                 TRUE, 0)
    \/ \E extension_length \in ExtensionLengths :
          kaa_logging_handle_server_sync(NULL_P, extension_length, "NO_ACTION", TRUE, TRUE)
    \/ kaa_logging_handle_server_sync(Ref(<<0, 1, 0, 0>>), 3, "NO_ACTION", TRUE, TRUE)
    \/ \E reader \in Readers(AckBytes, {0}), s \in StrategyOutcomes :
          kaa_logging_handle_server_sync(Ref(reader), 4, s[1], s[2], s[3])
    \/ \E reader \in Readers(AckBytes \cup HighAckBytes, PaddingBytes \ {0}) :
          kaa_logging_handle_server_sync(Ref(reader), 4, "NO_ACTION", TRUE, TRUE)

Spec == Init /\ [][Next]_vars

\* The application initializes a collector that already holds a storage, with
\* the instance held or with another one.
Reinit ==
    \E storage \in Storages, properties \in Properties :
        /\ log_storage # NULL
        /\ kaa_logging_init(storage, 1, properties)

\* What a released storage does when it is used is undefined; a collector that
\* holds one is followed no further than to its next initialization.
NextReinit ==
    \/ log_storage \notin released /\ Next
    \/ Reinit

SpecReinit == Init /\ [][NextReinit]_vars

----------------------------------------------------------------------------
\* What the claims speak of.

Min(a, b) == IF a < b THEN a ELSE b

\* 4-byte length prefix + payload + padding to a 4-byte boundary, summed.
RECURSIVE FramedSize(_)
FramedSize(lens) ==
    IF lens = <<>> THEN 0
    ELSE 4 + ((Head(lens) + 3) \div 4) * 4 + FramedSize(Tail(lens))

\* The budget of the call r made under the properties p: the smaller of the bucket
\* size and the bytes left in the buffer after the header and the id/count fields.
Budget(r, p) ==
    Min(p.max_log_bucket_size, r.writer0.end - (r.writer0.current + 8 + 4))

IsSerialize(r) == r.op = "kaa_logging_request_serialize"
IsAddRecord(r) == r.op = "kaa_logging_add_record"
IsServerSync(r) == r.op = "kaa_logging_handle_server_sync"
Benign == {"KAA_ERR_NOT_FOUND", "KAA_ERR_INSUFFICIENT_BUFFER"}

\* C1: a successful kaa_logging_request_serialize whose budget B is not negative
\* has written at most B framed record bytes, and its cursor is within the buffer.
C1_BudgetNeverExceeded ==
    (IsSerialize(res) /\ res.ret = "KAA_ERR_NONE" /\ Budget(res, log_properties) >= 0)
        => /\ FramedSize(res.lens) <= Budget(res, log_properties)
           /\ res.writer.current <= res.writer.end

ReachedIdAssignment(r) ==
    /\ IsSerialize(r)
    /\ r.ret \notin {"KAA_ERR_BADPARAM", "KAA_ERR_NOT_INITIALIZED",
                     "KAA_ERR_WRITE_FAILED", "KAA_ERR_BAD_STATE"}

\* C3: once a serialize call has reached the id assignment, every later call that
\* reaches it does not read the persisted seed and uses the previous id + 1
\* modulo 2^16.
C3_SeedReadOnce ==
    [][(seeded /\ ReachedIdAssignment(res'))
          => /\ ~Calls(res'.calls, "kaa_status_get_log_bucket_id")
             /\ log_bucket_id' = (log_bucket_id + 1) % 65536]_vars

\* The records of recs that do not carry bucket id, in their order.
WithoutBucket(recs, id) == SelectSeq(recs, LAMBDA r : r.bucket_id # id)

\* recs with the records that carry bucket id made pending again.
PendingAgain(recs, id) ==
    [i \in 1..Len(recs) |->
        [size |-> recs[i].size,
         bucket_id |-> IF recs[i].bucket_id = id THEN Untagged ELSE recs[i].bucket_id]]

\* What the acknowledgment recorded in r asks of the storage holding recs.
Resolved(recs, r) ==
    IF r.result = 0 THEN WithoutBucket(recs, r.id) ELSE PendingAgain(recs, r.id)

\* The strategy evaluation recorded in r removed nothing from recs: the verdict
\* was not CLEANUP, or the shrink failed, or recs was within the volume.
NoShrinkEffect(r, recs, p) ==
    \/ r.verdict # "CLEANUP"
    \/ r.shrink # "KAA_ERR_NONE"
    \/ SumSizes(recs) <= p.max_log_storage_volume

ResolveExact(recs, recs_after, r) ==
    /\ r.ret = "KAA_ERR_NONE"
    /\ recs_after = Resolved(recs, r)
    /\ r.result = 0 => \A i \in 1..Len(recs_after) : recs_after[i].bucket_id # r.id
    /\ (r.result # 0 /\ \E i \in 1..Len(recs) : recs[i].bucket_id = r.id)
          => NextEligible(recs_after) # 0

\* C4 as stated: after an acknowledgment of at least 4 bytes for bucket id i, with
\* a success outcome exactly the records tagged i are gone, with a failure outcome
\* exactly they are pending again, and no other record has changed.
C4_AsStated ==
    [][(IsServerSync(res') /\ res'.consumed = 4)
          => ResolveExact(records, records', res')]_vars

\* C4 as amended: the same, when the strategy evaluation that ends the call
\* removes nothing (its verdict is not CLEANUP, or the shrink fails, or the
\* storage is within max_log_storage_volume after the delete or untag).
C4_ResolveExact ==
    [][(/\ IsServerSync(res') /\ res'.consumed = 4
        /\ NoShrinkEffect(res', Resolved(records, res'), log_properties))
          => ResolveExact(records, records', res')]_vars

\* C4 witness: a delivered bucket was removed and another record remains.
C4_Witness ==
    /\ IsServerSync(res) /\ res.consumed = 4
    /\ res.result = 0 /\ res.matched >= 1
    /\ records # <<>>

NoOpAck(recs, recs_after, id, id_after, r) ==
    /\ r.ret = "KAA_ERR_NONE"
    /\ recs_after = recs
    /\ SumSizes(recs_after) = SumSizes(recs)
    /\ id_after = id

UnknownBucket(recs, id) == \A i \in 1..Len(recs) : recs[i].bucket_id # id

\* C5 as stated: an acknowledgment whose bucket id tags no record returns success
\* and leaves the records, their tags, the occupancy and the bucket id counter as
\* they were, whatever the strategy decides.
C5_AsStated ==
    [][(IsServerSync(res') /\ res'.consumed = 4 /\ UnknownBucket(records, res'.id))
          => NoOpAck(records, records', log_bucket_id, log_bucket_id', res')]_vars

\* C5 as amended: the same, when the strategy evaluation removes nothing (its
\* verdict is not CLEANUP, or the shrink fails, or the storage is within
\* max_log_storage_volume).
C5_UnknownIdNoOp ==
    [][(/\ IsServerSync(res') /\ res'.consumed = 4 /\ UnknownBucket(records, res'.id)
        /\ NoShrinkEffect(res', records, log_properties))
          => NoOpAck(records, records', log_bucket_id, log_bucket_id', res')]_vars

\* C5 witness: an acknowledgment for an id no record carried, with records stored
\* and a CLEANUP verdict.
C5_Witness ==
    /\ IsServerSync(res) /\ res.consumed = 4
    /\ res.matched = 0 /\ res.verdict = "CLEANUP"
    /\ records # <<>>

\* C6: kaa_logging_add_record on an initialized collector with a record of
\* serialized size zero returns KAA_ERR_BADDATA, calls neither the storage, the
\* strategy nor the sync handler, and leaves the records as they were.
C6_EmptyRecordRejected ==
    [][(/\ IsAddRecord(res') /\ log_storage # NULL
        /\ res'.ret # "KAA_ERR_BADPARAM" /\ res'.size = 0)
          => /\ res'.ret = "KAA_ERR_BADDATA"
             /\ res'.calls = <<>>
             /\ records' = records]_vars

\* C6 witness: an empty record was rejected while records were stored.
C6_Witness ==
    /\ IsAddRecord(res) /\ res.ret = "KAA_ERR_BADDATA" /\ res.size = 0
    /\ log_storage # NULL /\ records # <<>>

RecordKept(recs, recs_after, r) ==
    /\ r.size > 0
    /\ recs_after = Append(recs, [size |-> r.size, bucket_id |-> Untagged])
    /\ SumSizes(recs_after) = SumSizes(recs) + r.size

\* C7 as stated: when kaa_logging_add_record returns success the record is in the
\* storage and the occupancy has grown by its size, whatever the strategy decides.
C7_AsStated ==
    [][(IsAddRecord(res') /\ res'.ret = "KAA_ERR_NONE")
          => RecordKept(records, records', res')]_vars

\* C7 as amended: the same, when the strategy evaluation removes nothing (its
\* verdict is NO_ACTION or UPLOAD, or the shrink fails, or the storage with the
\* new record is within max_log_storage_volume).
C7_RecordKept ==
    [][(/\ IsAddRecord(res') /\ res'.ret = "KAA_ERR_NONE"
        /\ NoShrinkEffect(res', Append(records, [size |-> res'.size, bucket_id |-> Untagged]),
                          log_properties))
          => RecordKept(records, records', res')]_vars

\* C7 witness: a record was added under a CLEANUP verdict and is stored.
C7_Witness ==
    /\ IsAddRecord(res) /\ res.ret = "KAA_ERR_NONE"
    /\ res.verdict = "CLEANUP" /\ res.shrink = "KAA_ERR_NONE"
    /\ records # <<>>
    /\ records[Len(records)] = [size |-> res.size, bucket_id |-> Untagged]

\* C8: with a budget B >= 0 smaller than the framed size of the first pending
\* record, kaa_logging_request_serialize returns the empty-bucket error and
\* neither extracts nor tags a record.
C8_SmallBudgetFails ==
    [][(/\ ReachedIdAssignment(res') /\ res'.first # "KAA_ERR_BADDATA"
        /\ NextEligible(records) # 0
        /\ Budget(res', log_properties) >= 0
        /\ Budget(res', log_properties) < FramedSize(<<records[NextEligible(records)].size>>))
          => /\ res'.ret \in Benign
             /\ res'.lens = <<>>
             /\ records' = records]_vars

\* C9: after a successful kaa_logging_request_serialize that packed records of
\* lengths l_1..l_N, framed within the budget, the count field decodes to N and
\* the extension length field decodes to final cursor - extension start - header
\* size, which is 4 + the sum of (4 + l_i rounded up to a multiple of 4).
C9_HeaderRoundTrip ==
    (/\ IsSerialize(res) /\ res.ret = "KAA_ERR_NONE"
     /\ FramedSize(res.lens) <= Budget(res, log_properties))
        => /\ KAA_NTOHS(res.records_count) = Len(res.lens)
           /\ KAA_NTOHL(res.extension_size) = res.writer.current - res.writer0.current - 8
           /\ KAA_NTOHL(res.extension_size) = 4 + FramedSize(res.lens)

\* C9 witness: a bucket of two records, of 10 and of 20 bytes, within its budget.
C9_Witness ==
    /\ IsSerialize(res) /\ res.ret = "KAA_ERR_NONE"
    /\ Len(res.lens) = 2 /\ res.lens[1] # res.lens[2]
    /\ FramedSize(res.lens) <= Budget(res, log_properties)
    /\ KAA_NTOHL(res.extension_size) = 44

TwoPending(recs) ==
    /\ Len(recs) = 2
    /\ {recs[1].size, recs[2].size} = {10, 20}
    /\ \A i \in 1..2 : recs[i].bucket_id = Untagged

\* C10: with a persisted seed of 0, exactly two pending records of 10 and 20 bytes,
\* and a bucket size and buffer space of at least 1024, the first serialize call
\* (whose collaborators do not fail) succeeds with bucket id 1, record count 2 and
\* 40 bytes of framed records.
C10_TwoRecordBucket ==
    [][(/\ IsSerialize(res') /\ ~seeded /\ log_bucket_id = 0 /\ seed = 0
        /\ TwoPending(records)
        /\ log_properties.max_log_bucket_size >= 1024
        /\ res'.writer0.end - res'.writer0.current - 12 >= 1024
        /\ res'.ret \notin {"KAA_ERR_BAD_STATE", "KAA_ERR_BADDATA"})
          => /\ res'.ret = "KAA_ERR_NONE"
             /\ KAA_NTOHS(res'.bucket_id) = 1
             /\ log_bucket_id' = 1
             /\ KAA_NTOHS(res'.records_count) = 2
             /\ res'.lens = <<records[1].size, records[2].size>>
             /\ KAA_NTOHL(res'.extension_size) - 4 = 2 * 4 + 30 + 2 + 0
             /\ res'.writer.current - res'.writer0.current = 8 + 4 + 40]_vars

\* C10 witness: the first bucket, holding the records of 10 and 20 bytes.
C10_Witness ==
    /\ IsSerialize(res) /\ res.ret = "KAA_ERR_NONE"
    /\ seed = 0 /\ Calls(res.calls, "kaa_status_get_log_bucket_id")
    /\ res.lens = <<10, 20>>
    /\ KAA_NTOHS(res.bucket_id) = 1
    /\ res.writer0.end - res.writer0.current >= 1036

IsGetSize(r) == r.op = "kaa_logging_request_get_size"

\* The records of recs that belong to no bucket.
Pending(recs) == SelectSeq(recs, LAMBDA r : r.bucket_id = Untagged)

\* C11: kaa_logging_request_get_size on an initialized collector returns header
\* size + 4 + min(pending count * (4 + 3) + total pending bytes, max_log_bucket_size);
\* with an empty storage that is the fixed cost of 12; the call changes neither
\* the storage nor the bucket id.
C11_EstimateOfPending ==
    [][(IsGetSize(res') /\ log_storage # NULL /\ res'.ret # "KAA_ERR_BADPARAM")
          => /\ res'.ret = "KAA_ERR_NONE"
             /\ res'.expected_size =
                    8 + 4 + Min(Len(Pending(records)) * (4 + 3) + SumSizes(Pending(records)),
                                log_properties.max_log_bucket_size)
             /\ records = <<>> => res'.expected_size = 8 + 4
             /\ records' = records
             /\ log_bucket_id' = log_bucket_id]_vars

\* How often the call name occurs in seq.
Count(seq, name) == Cardinality({i \in 1..Len(seq) : seq[i] = name})

ResolveCalls == {"ext_log_storage_remove_by_bucket_id", "ext_log_storage_unmark_by_bucket_id"}

\* C12: kaa_logging_handle_server_sync with an extension shorter than 4 bytes
\* returns success, leaves the reader's cursor and the records as they were and
\* calls neither the storage, the strategy nor the sync handler; with 4 bytes or
\* more it moves the cursor by exactly 4 and makes exactly one delete or untag
\* call, followed by exactly one strategy evaluation.
C12_ShortExtensionIgnored ==
    [][(IsServerSync(res') /\ res'.ret # "KAA_ERR_BADPARAM")
          => /\ res'.extension_length < 4 =>
                    /\ res'.ret = "KAA_ERR_NONE"
                    /\ res'.consumed = 0
                    /\ res'.calls = <<>>
                    /\ records' = records
             /\ res'.extension_length >= 4 =>
                    /\ res'.consumed = 4
                    /\ Len(res'.calls) >= 2
                    /\ res'.calls[1] \in ResolveCalls
                    /\ res'.calls[2] = "ext_log_upload_strategy_decide"
                    /\ Cardinality({i \in 1..Len(res'.calls) : res'.calls[i] \in ResolveCalls}) = 1
                    /\ Count(res'.calls, "ext_log_upload_strategy_decide") = 1]_vars

\* C12 witness: a 3-byte extension that names the bucket of a stored record was
\* ignored.
C12_Witness ==
    /\ IsServerSync(res) /\ res.ret = "KAA_ERR_NONE"
    /\ res.extension_length = 3
    /\ \E i \in 1..Len(records) : records[i].bucket_id = 1

\* C13: for the acknowledgment bytes b0 b1 b2 b3 the bucket resolved is
\* b0 * 256 + b1; it is deleted if and only if b2 = 0 and untagged for every
\* other b2; b3 has no part in it.
C13_AckByteOffsets ==
    [][(IsServerSync(res') /\ res'.consumed = 4)
          => LET b == res'.reader
                 id == b[1] * 256 + b[2]
             IN  /\ res'.id = id
                 /\ res'.calls[1] = IF b[3] = 0 THEN "ext_log_storage_remove_by_bucket_id"
                                     ELSE "ext_log_storage_unmark_by_bucket_id"
                 /\ (log_storage # NULL /\ res'.verdict # "CLEANUP")
                       => records' = IF b[3] = 0 THEN WithoutBucket(records, id)
                                     ELSE PendingAgain(records, id)]_vars

\* C13 witness: a bucket was deleted on an acknowledgment whose fourth byte is
\* not zero.
C13_Witness ==
    /\ IsServerSync(res) /\ res.consumed = 4
    /\ res.reader[3] = 0 /\ res.reader[4] # 0
    /\ res.matched >= 1

\* C14: when an extraction inside kaa_logging_request_serialize fails with an
\* error other than no-more-records or buffer-too-small, after any number of
\* records were extracted, the call returns that error, neither backpatches nor
\* advances the caller's writer, and afterwards no record in the storage carries
\* the id of the abandoned bucket.
C14_AbandonedBucketUntagged ==
    (IsSerialize(res) /\ res.last = "KAA_ERR_BADDATA")
        => /\ res.ret = res.last
           /\ res.writer = res.writer0
           /\ res.extension_size = <<>> /\ res.records_count = <<>>
           /\ \A i \in 1..Len(records) : records[i].bucket_id # KAA_NTOHS(res.bucket_id)

\* The calls of r that follow the strategy's decision.
AfterDecision(r) ==
    LET at == CHOOSE i \in 1..Len(r.calls) : r.calls[i] = "ext_log_upload_strategy_decide"
    IN  SubSeq(r.calls, at + 1, Len(r.calls))

\* What the verdict recorded in r is to lead to, on the records base the strategy
\* was asked about.
Dispatched(r, base, recs_after, p) ==
    /\ r.ret = "KAA_ERR_NONE"
    /\ r.verdict = "CLEANUP" =>
          /\ AfterDecision(r) = <<"ext_log_storage_shrink_to_size">>
          /\ recs_after = IF r.shrink = "KAA_ERR_NONE"
                          THEN ext_log_storage_shrink_to_size(base, p.max_log_storage_volume)
                          ELSE base
    /\ r.verdict = "UPLOAD" =>
          /\ AfterDecision(r) = <<"kaa_channel_manager_get_sync_handler">>
                                 \o (IF r.handler THEN <<"sync">> ELSE <<>>)
          /\ recs_after = base
    /\ r.verdict = "NO_ACTION" =>
          /\ AfterDecision(r) = <<>>
          /\ recs_after = base

\* C15: in kaa_logging_add_record and kaa_logging_handle_server_sync a CLEANUP
\* verdict leads to one shrink to max_log_storage_volume and no sync, and the
\* call returns success whether or not the shrink fails; an UPLOAD verdict leads
\* to one call of the sync handler if one is registered, to nothing otherwise,
\* and never to a shrink; NO_ACTION leads to no call and no change of the storage.
C15_VerdictDispatch ==
    [][/\ (IsAddRecord(res') /\ res'.ret = "KAA_ERR_NONE")
            => Dispatched(res', Append(records, [size |-> res'.size, bucket_id |-> Untagged]),
                          records', log_properties)
       /\ (IsServerSync(res') /\ res'.consumed = 4 /\ log_storage # NULL)
            => Dispatched(res', Resolved(records, res'), records', log_properties)]_vars

\* C15 witness: a record was added, the strategy asked for a cleanup, the shrink
\* failed and the storage is above its volume.
C15_Witness ==
    /\ IsAddRecord(res) /\ res.ret = "KAA_ERR_NONE"
    /\ res.verdict = "CLEANUP" /\ res.shrink = "KAA_ERR_BADPARAM"
    /\ SumSizes(records) > log_properties.max_log_storage_volume

\* C16: on a collector that holds no storage, kaa_logging_add_record,
\* kaa_logging_request_get_size, kaa_logging_request_serialize and
\* kaa_logging_handle_server_sync with an extension of 4 bytes or more (all with
\* their arguments present) return KAA_ERR_NOT_INITIALIZED, call neither the
\* storage, the strategy nor the sync handler, and leave the bucket id, the
\* writer and the reader as they were.
C16_NotInitialized ==
    [][(/\ log_storage = NULL
        /\ IsAddRecord(res') \/ IsGetSize(res') \/ IsSerialize(res') \/ IsServerSync(res')
        /\ res'.ret # "KAA_ERR_BADPARAM"
        /\ IsServerSync(res') => res'.extension_length >= 4)
          => /\ res'.ret = "KAA_ERR_NOT_INITIALIZED"
             /\ res'.calls = <<>>
             /\ log_bucket_id' = log_bucket_id
             /\ res'.writer = res'.writer0
             /\ res'.consumed = 0]_vars

Allocate == "ext_log_storage_allocate_log_record_buffer"
Deallocate == "ext_log_storage_deallocate_log_record_buffer"
Register == "ext_log_storage_add_log_record"
Decide == "ext_log_upload_strategy_decide"

\* C17: in kaa_logging_add_record a buffer obtained from the storage is either
\* registered as a record or released, once, before the call returns: a failed
\* allocation releases nothing; a failed avro writer or a failed registration
\* releases the buffer once, keeps no record and returns an error; a registration
\* that succeeds releases nothing; the strategy is evaluated once if the
\* registration succeeded and not at all otherwise.
C17_BufferRegisteredOrReleased ==
    [][(IsAddRecord(res') /\ Count(res'.calls, Allocate) >= 1)
          => LET r == res'
             IN  /\ Count(r.calls, Allocate) = 1
                 /\ r.failed = Allocate =>
                        /\ r.ret # "KAA_ERR_NONE"
                        /\ Count(r.calls, Deallocate) = 0 /\ Count(r.calls, Register) = 0
                        /\ Count(r.calls, Decide) = 0
                        /\ records' = records
                 /\ r.failed \in {"avro_writer_memory", Register} =>
                        /\ r.ret # "KAA_ERR_NONE"
                        /\ Count(r.calls, Deallocate) = 1
                        /\ Count(r.calls, Decide) = 0
                        /\ records' = records
                 /\ r.failed = "avro_writer_memory" => Count(r.calls, Register) = 0
                 /\ r.failed = "none" =>
                        /\ r.ret = "KAA_ERR_NONE"
                        /\ Count(r.calls, Register) = 1
                        /\ Count(r.calls, Deallocate) = 0
                        /\ Count(r.calls, Decide) = 1
                        /\ r.verdict # "CLEANUP" =>
                              records' = Append(records, [size |-> r.size, bucket_id |-> Untagged])]_vars

\* C17 witness: the registration failed and the buffer was released, with records
\* stored.
C17_Witness ==
    /\ IsAddRecord(res) /\ res.failed = Register
    /\ res.calls = <<Allocate, Register, Deallocate>>
    /\ records # <<>>

IsInit(r) == r.op = "kaa_logging_init"

\* C18: a kaa_logging_init that succeeds leaves the collector holding the
\* storage, the strategy and the properties it was given, has released the
\* storage held before once, leaves the bucket id as it was, and the storage held
\* afterwards is not a released one, whichever storage was given; one that is
\* rejected with KAA_ERR_BADPARAM releases nothing and changes none of the three.
C18_InitReplacesAndReleases ==
    [][IsInit(res')
          => /\ res'.ret = "KAA_ERR_NONE" =>
                    /\ log_storage' = res'.storage
                    /\ log_upload_strategy' = res'.upload_strategy
                    /\ log_properties' = res'.properties
                    /\ Count(res'.calls, "ext_log_storage_release") = 1
                    /\ log_storage # NULL => log_storage \in released'
                    /\ log_bucket_id' = log_bucket_id
                    /\ log_storage' \notin released'
             /\ res'.ret = "KAA_ERR_BADPARAM" =>
                    /\ res'.calls = <<>>
                    /\ released' = released
                    /\ UNCHANGED <<log_storage, log_upload_strategy, log_properties>>]_vars

\* C19: when kaa_logging_request_get_size has returned E and
\* kaa_logging_request_serialize is called next on a buffer with exactly E bytes
\* left, a successful serialize moves the writer by at most E bytes.
C19_EstimateBoundsCost ==
    [][(/\ IsGetSize(res) /\ res.ret = "KAA_ERR_NONE"
        /\ IsSerialize(res') /\ res'.ret = "KAA_ERR_NONE"
        /\ res'.writer0.end - res'.writer0.current = res.expected_size)
          => res'.writer.current - res'.writer0.current <= res.expected_size]_vars

\* C20: kaa_logging_request_serialize leaves the caller's writer where it was on
\* every failure; on KAA_ERR_BAD_STATE it has attempted no extraction and the
\* bucket id is still 0; on success it has moved the writer by exactly header
\* size + 4 + the framed size of the records packed.
C20_WriterAllOrNothing ==
    (IsSerialize(res) /\ res.ret # "KAA_ERR_BADPARAM")
        => /\ res.ret # "KAA_ERR_NONE" => res.writer = res.writer0
           /\ res.ret = "KAA_ERR_BAD_STATE" =>
                 /\ Count(res.calls, "ext_log_storage_write_next_record") = 0
                 /\ log_bucket_id = 0
           /\ res.ret = "KAA_ERR_NONE" =>
                 res.writer.current - res.writer0.current = 8 + 4 + FramedSize(res.lens)

====
